---- MODULE Spec2Model ----
(***************************************************************************)
(* Model of the mongoose-version-handler plugin: the pre('save') hook, the *)
(* findOneAndUpdate hooks, getVersion and rollback, over one record, one   *)
(* in-memory document handle, the stored record and the history collection.*)
(* Snapshots are trees of objects and scalars (no arrays).  An object is   *)
(* [kind |-> "obj", val |-> function from keys to trees], a scalar is      *)
(* [kind |-> "leaf", val |-> value].                                       *)
(***************************************************************************)
EXTENDS Integers, Sequences, FiniteSets, TLC

\* ------------------------------------------------------------------ bounds
\* Most calls that write (save, findOneAndUpdate, rollback, reload of the
\* handle) in one history of the record, in Spec.
MaxCalls == 3
\* The same bound in SpecDeep, which has fewer inputs and longer histories.
DeepMaxCalls == 5
\* The same bound in SpecUnawaited, the save hook of index.ts.
UnawaitedMaxCalls == 3
\* The same bound in SpecFaults, where log and store calls can be rejected.
FaultMaxCalls == 4
\* The same bound in SpecMeta, whose callers pass metadata.
MetaMaxCalls == 4

\* --------------------------------------------------------------- constants
versionKey == "documentVersion"
versionDateKey == "documentVersionDate"
NoVersion == 0
NoRecord == [kind |-> "none"]
NoMeta == "none"
IdValue == "id1"
OtherId == "id2"

\* ------------------------------------------------------------------- trees
Leaf(v) == [kind |-> "leaf", val |-> v]
Obj(f) == [kind |-> "obj", val |-> f]
EmptyFun == [k \in {} |-> Leaf("")]
EmptyObj == Obj(EmptyFun)
IsObj(t) == t.kind = "obj"
Has(o, k) == k \in DOMAIN o.val
Put(o, k, v) == Obj([x \in (DOMAIN o.val) \cup {k} |-> IF x = k THEN v ELSE o.val[x]])
Del(o, k) == Obj([x \in (DOMAIN o.val) \ {k} |-> o.val[x]])

\* A key that contains the pointer separator.
SlashKey == "a/b"

\* Enumeration order of object keys (Object.keys).
KeyOrder == <<"_id", "name", "ob", "v", versionKey, versionDateKey, "a", "b", SlashKey>>
ObjectKeys(o) == SelectSeq(KeyOrder, LAMBDA k : Has(o, k))

Reverse(s) == [i \in 1..Len(s) |-> s[Len(s) + 1 - i]]

\* ------------------------------------------------------------ JSON pointer
\* A pointer is the sequence of its tokens; "/" is the separator token. A key
\* is one token, except the key that contains the separator.
KeyTokens(k) == IF k = SlashKey THEN <<"a", "/", "b">> ELSE <<k>>
\* [''].concat(arrayPath).join('/'): the keys are joined as they are.
RECURSIVE jsonPatchPathConverter(_)
jsonPatchPathConverter(arrayPath) ==
    IF arrayPath = <<>> THEN <<>>
    ELSE <<"/">> \o KeyTokens(Head(arrayPath)) \o jsonPatchPathConverter(Tail(arrayPath))

\* fast-json-patch: keys = path.split('/'), the first (empty) piece dropped.
RECURSIVE splitPointer(_, _, _)
splitPointer(ptr, i, cur) ==
    IF i > Len(ptr) THEN <<cur>>
    ELSE IF ptr[i] = "/" THEN <<cur>> \o splitPointer(ptr, i + 1, <<>>)
    ELSE splitPointer(ptr, i + 1, Append(cur, ptr[i]))
\* unescapePathComponent: ~1 is "/", ~0 is "~".
unescapePathComponent(seg) ==
    [i \in 1..Len(seg) |-> IF seg[i] = "~1" THEN "/" ELSE IF seg[i] = "~0" THEN "~" ELSE seg[i]]
SegmentKey(seg) ==
    LET tokens == unescapePathComponent(seg)
    IN IF tokens = KeyTokens(SlashKey) THEN SlashKey
       ELSE IF Len(tokens) = 1 THEN tokens[1] ELSE ""
PointerKeys(ptr) ==
    LET pieces == splitPointer(ptr, 1, <<>>)
    IN [i \in 1..(Len(pieces) - 1) |-> SegmentKey(pieces[i + 1])]

\* ---------------------------------------------------------------- just-diff
NoDiffs == [remove |-> <<>>, replace |-> <<>>, add |-> <<>>]

RECURSIVE getDiff(_, _, _, _)
RECURSIVE pushReplaces(_, _, _, _, _)

\* One obj2 key at position i of keys, then the following ones.
pushReplaces(obj1, obj2, basePath, i, diffs) ==
    LET keys == ObjectKeys(obj2) IN
    IF i > Len(keys) THEN diffs
    ELSE
      LET key == keys[i]
          path == Append(basePath, key)
          v2 == obj2.val[key]
          next ==
            IF ~Has(obj1, key)
            THEN [diffs EXCEPT !.add =
                    Append(@, [op |-> "add", path |-> jsonPatchPathConverter(path), value |-> v2])]
            ELSE LET v1 == obj1.val[key] IN
              IF IsObj(v1) /\ IsObj(v2) THEN getDiff(v1, v2, path, diffs)
              ELSE IF v1.kind = v2.kind /\ v1.val = v2.val THEN diffs
              ELSE [diffs EXCEPT !.replace =
                    Append(@, [op |-> "replace", path |-> jsonPatchPathConverter(path), value |-> v2])]
      IN pushReplaces(obj1, obj2, basePath, i + 1, next)

getDiff(obj1, obj2, basePath, diffs) ==
    LET gone == SelectSeq(ObjectKeys(obj1), LAMBDA k : ~Has(obj2, k))
        removes == [i \in 1..Len(gone) |->
                      [op |-> "remove", path |-> jsonPatchPathConverter(Append(basePath, gone[i]))]]
    IN pushReplaces(obj1, obj2, basePath, 1, [diffs EXCEPT !.remove = @ \o removes])

diff(obj1, obj2) ==
    LET diffs == getDiff(obj1, obj2, <<>>, NoDiffs)
    IN Reverse(diffs.remove) \o diffs.replace \o diffs.add

\* ---------------------------------------------------------- fast-json-patch
\* applyOperation on the object reached so far; yields the changed object and
\* whether the operation threw (a key looked up on undefined or on a scalar).
RECURSIVE applyAt(_, _, _, _)
applyAt(obj, keys, t, operation) ==
    IF ~IsObj(obj) THEN [doc |-> obj, error |-> TRUE]
    ELSE
      LET key == keys[t] IN
      IF t = Len(keys) THEN
        IF operation.op = "remove" THEN [doc |-> Del(obj, key), error |-> FALSE]
        ELSE [doc |-> Put(obj, key, operation.value), error |-> FALSE]
      ELSE IF ~Has(obj, key) THEN [doc |-> obj, error |-> TRUE]
      ELSE LET r == applyAt(obj.val[key], keys, t + 1, operation)
           IN [doc |-> Put(obj, key, r.doc), error |-> r.error]

applyOperation(document, operation) ==
    LET keys == PointerKeys(operation.path) IN
    IF keys = <<>> THEN
        IF operation.op = "remove" THEN [doc |-> document, error |-> TRUE]
        ELSE [doc |-> operation.value, error |-> FALSE]
    ELSE applyAt(document, keys, 1, operation)

\* applyPatch(document, patch): the operations in order, on the document
\* itself; the first one that throws stops it, the earlier ones stay applied.
RECURSIVE applyPatch(_, _)
applyPatch(document, patch) ==
    IF patch = <<>> THEN [newDocument |-> document, error |-> FALSE]
    ELSE LET r == applyOperation(document, Head(patch)) IN
         IF r.error THEN [newDocument |-> r.doc, error |-> TRUE]
         ELSE applyPatch(r.doc, Tail(patch))

\* ------------------------------------------------------------------- state
VARIABLES
    doc,     \* the in-memory document handle: isNew, deleted, tree (toObject()),
             \* and base, the tree as last loaded from or written to the store
    store,   \* the stored record of the collection, or NoRecord
    log,     \* the history collection save, getVersion and rollback use (the
             \* one options.collection names, else <collection>_h), in
             \* insertion order
    log_h,   \* the collection <collection>_h, when options.collection names
             \* another one
    options, \* the plugin's options: collection (set or not), trackDate,
             \* addDateToDocument
    update,  \* the findOneAndUpdate whose pre hook has run and whose update
             \* has not been applied yet, or NoUpdate
    other,   \* the stored record of a second document of the collection, or
             \* NoRecord
    result,  \* the last call: operation, arguments, error and returned value
    saved,   \* history: the state each version had when a save or update wrote it
    calls,   \* history: the number of writing calls made so far
    pending, \* change-sets whose version.save() was issued and has not completed
    trial    \* a pair of snapshots and what applyPatch(a, diff(a, b)) gave

vars == <<doc, store, log, log_h, options, result, saved, calls, pending, trial, update, other>>

\* Values of the domain fields a caller can give a record.
Contents ==
    {[name |-> "A", ob |-> "absent"], [name |-> "A", ob |-> "x"], [name |-> "B", ob |-> "y"]}
Metadata == {NoMeta}

Version(tree) == IF Has(tree, versionKey) THEN tree.val[versionKey].val ELSE NoVersion

\* The caller's assignments to the domain fields of a document.
Assign(tree, c) ==
    LET t1 == Put(tree, "name", Leaf(c.name))
    IN IF c.ob = "absent" THEN Del(t1, "ob")
       ELSE Put(t1, "ob", Obj([k \in {"v"} |-> Leaf(c.ob)]))

\* new Model({...}): a fresh _id and the given fields.
NewTree(c, v) ==
    LET t == Assign(Obj([k \in {"_id"} |-> Leaf(IdValue)]), c)
    IN IF v = NoVersion THEN t ELSE Put(t, versionKey, Leaf(v))

\* Mutant: a change-set that does not keep the metadata option.
ChangeSetWithoutMetadata(version, patches, metadata) ==
    [parent |-> IdValue, version |-> version, patches |-> patches, metadata |-> NoMeta]

ChangeSet(version, patches, metadata) ==
    [parent |-> IdValue, version |-> version, patches |-> patches, metadata |-> metadata]

\* Mutant: a query that does not look at the parent of a change-set.
hasAnyParent(c, id) == TRUE

\* {parent: _id} / where('parent').equals(_id) of the queries on the history
\* collection.
hasParent(c, id) == c.parent = id
ofParent(sets, id) == SelectSeq(sets, LAMBDA c : hasParent(c, id))

\* find(...).sort({version: 1}): ascending by version, insertion order among equals.
RECURSIVE sortFrom(_, _)
sortFrom(sets, v) ==
    IF \A i \in 1..Len(sets) : sets[i].version < v THEN <<>>
    ELSE SelectSeq(sets, LAMBDA c : c.version = v) \o sortFrom(sets, v + 1)
sortByVersion(sets) == sortFrom(sets, 0)

RECURSIVE concatPatches(_)
concatPatches(versions) ==
    IF versions = <<>> THEN <<>>
    ELSE Head(versions).patches \o concatPatches(Tail(versions))

\* find({parent: _id}).sort({version: 1}) of the save and findOneAndUpdate hooks.
findVersions(sets) == sortByVersion(ofParent(sets, IdValue))
\* where('version').lte(n).sort({version: 1}) of getVersion.
findVersionsLte(sets, n) ==
    sortByVersion(SelectSeq(ofParent(sets, IdValue), LAMBDA c : c.version <= n))

\* deleteOne({parent, version}): the first match, none when there is no match.
RECURSIVE deleteOne(_, _)
deleteOne(sets, version) ==
    IF sets = <<>> THEN <<>>
    ELSE IF hasParent(Head(sets), IdValue) /\ Head(sets).version = version THEN Tail(sets)
    ELSE <<Head(sets)>> \o deleteOne(Tail(sets), version)

\* The record of a call: the operation, its version argument, suppression
\* flag and metadata option, the branch taken, the error raised, the value
\* returned and the number of reads of the history collection; of a
\* getVersion or rollback, whether it was given a callback, how many times
\* the callback was invoked and whether the call threw (its promise was
\* rejected).
Call(op, k, suppress) ==
    [op |-> op, k |-> k, suppress |-> suppress, meta |-> NoMeta,
     branch |-> "", err |-> "none", val |-> NoRecord, reads |-> 0,
     cb |-> FALSE, callbacks |-> 0, thrown |-> FALSE]

\* if (cb instanceof Function) cb(...): the invocations of the callback a
\* call makes and whether it throws, by the place the call ends in.
\*   returned  the call returns its value and does not look at cb
\*   thrown    the error leaves the call outside every handler
\*   cbThrow   cb(err); throw err
\*   cbReturn  return cb(err) or return cb(null, value)
\*   cbTwice   return cb(err) in the catch of the query, whose value (none)
\*             is taken for the previous change-set, then return cb(err)
\*             of 'No previous version found.'
Report(r, cb, end) ==
    [r EXCEPT !.cb = cb,
              !.callbacks = IF ~cb \/ end \in {"returned", "thrown"} THEN 0
                            ELSE IF end = "cbTwice" THEN 2 ELSE 1,
              !.thrown = IF cb THEN end \in {"thrown", "cbThrow"}
                         ELSE r.err # "none"]

\* The history after versions were written: each version in written maps to
\* the state that was stored for it.
Record(h, written) ==
    [v \in (DOMAIN h) \cup (DOMAIN written) |-> IF v \in DOMAIN written THEN written[v] ELSE h[v]]
One(v, tree) == [x \in {v} |-> tree]

\* No findOneAndUpdate between its pre hook and its update.
NoUpdate == [active |-> FALSE]

\* No pair of snapshots under trial.
NoTrial == [a |-> EmptyObj, b |-> EmptyObj, done |-> FALSE, out |-> EmptyObj, error |-> FALSE]

\* The plugin installed without options.
NoOptions == [collection |-> FALSE, trackDate |-> FALSE, addDateToDocument |-> FALSE]

Init ==
    /\ \E c \in Contents, v \in {NoVersion, 1} :
         doc = [isNew |-> TRUE, deleted |-> FALSE, tree |-> NewTree(c, v),
                base |-> EmptyObj]
    /\ store = NoRecord
    /\ log = <<>>
    /\ result = Call("init", 0, FALSE)
    /\ saved = EmptyFun
    /\ calls = 0
    /\ pending = <<>>
    /\ trial = NoTrial
    /\ options = NoOptions
    /\ log_h = <<>>
    /\ update = NoUpdate
    /\ other = NoRecord

\* ------------------------------------------------------------------- save
\* What document.save() writes once the pre('save') hook has called next():
\* the whole document when it is new, else the stored record with the paths
\* the handle has modified since it was loaded or last saved set or unset.
Modified(base, tree) ==
    {k \in (DOMAIN base.val) \cup (DOMAIN tree.val) :
        ~(Has(base, k) /\ Has(tree, k) /\ base.val[k] = tree.val[k])}
Persisted(d, stored, tree) ==
    IF d.isNew \/ stored = NoRecord THEN tree
    ELSE Obj([k \in ((DOMAIN stored.val) \ Modified(d.base, tree)) \cup (DOMAIN tree.val) |->
                IF k \in Modified(d.base, tree) \/ ~Has(stored, k)
                THEN tree.val[k] ELSE stored.val[k]])

\* const date = new Date(): the time of the call.
date == calls + 1
\* if (trackDate && addDateToDocument) this[versionDateKey] = date
setVersionDate(tree) ==
    IF options.trackDate /\ options.addDateToDocument
    THEN Put(tree, versionDateKey, Leaf(date)) ELSE tree

\* The three branches of the pre('save') hook, on the document the caller
\* has assigned its fields to: the change-sets appended, the document as the
\* hook leaves it, and whether the hook threw.
preSaveNew(tree, meta) ==
    LET t1 == setVersionDate(Put(tree, versionKey, Leaf(1)))
    IN [tree |-> t1, error |-> FALSE, branch |-> "NEW",
        appended |-> <<ChangeSet(1, diff(EmptyObj, t1), meta)>>]

\* Mutant: a stored record without version handled like a new one, as by
\* a hook that tests isNew || !version.
preSaveBackfillAsNew(tree, oldDoc, meta) == preSaveNew(tree, meta)

preSaveBackfill(tree, oldDoc, meta) ==
    IF oldDoc = NoRecord
    THEN [tree |-> tree, error |-> FALSE, branch |-> "NOTFOUND", appended |-> <<>>]
    ELSE LET t2 == Put(setVersionDate(tree), versionKey, Leaf(2))
         IN [tree |-> t2, error |-> FALSE, branch |-> "BACKFILL",
             appended |-> <<ChangeSet(1, diff(EmptyObj, oldDoc), meta),
                            ChangeSet(2, diff(oldDoc, t2), meta)>>]

preSaveVersioned(tree, sets, meta) ==
    LET newVersion == setVersionDate(Put(tree, versionKey, Leaf(Version(tree) + 1)))
        versions == findVersions(sets)
        previous == applyPatch(EmptyObj, concatPatches(versions))
    IN IF previous.error
       THEN [tree |-> newVersion, error |-> TRUE, branch |-> "VERSIONED", appended |-> <<>>]
       ELSE [tree |-> newVersion, error |-> FALSE, branch |-> "VERSIONED",
             appended |-> <<ChangeSet(Version(newVersion),
                                      diff(previous.newDocument, newVersion), meta)>>]

preSave(d, tree, oldDoc, sets, meta) ==
    IF d.isNew /\ Version(tree) = NoVersion THEN preSaveNew(tree, meta)
    ELSE IF ~d.isNew /\ Version(tree) = NoVersion THEN preSaveBackfill(tree, oldDoc, meta)
    ELSE preSaveVersioned(tree, sets, meta)

\* Mutant: the suppression flag of the save options not looked at.
disablePreSaveHookIgnored(suppress) == FALSE

\* if (opts?.disablePreSaveHook) return next()
disablePreSaveHook(suppress) == suppress

\* doc.<fields> = content; doc.save({metadata, disablePreSaveHook}).
Save(content, meta, suppress, b) ==
    /\ ~doc.deleted
    /\ calls < b
    /\ calls' = calls + 1
    /\ UNCHANGED <<pending, trial, options, log_h, update, other>>
    /\ LET tree == Assign(doc.tree, content) IN
       IF disablePreSaveHook(suppress)
       THEN /\ doc' = [doc EXCEPT !.isNew = FALSE, !.tree = tree, !.base = tree]
            /\ store' = Persisted(doc, store, tree)
            /\ log' = log
            /\ saved' = saved
            /\ result' = [Call("save", 0, suppress) EXCEPT
                             !.meta = meta, !.branch = "SUPPRESSED"]
       ELSE LET h == preSave(doc, tree, store, log, meta) IN
            /\ log' = log \o h.appended
            /\ IF h.error
               THEN /\ doc' = [doc EXCEPT !.tree = h.tree]
                    /\ store' = store
                    /\ saved' = saved
                    /\ result' = [Call("save", 0, suppress) EXCEPT
                                     !.meta = meta, !.branch = h.branch,
                                     !.err = "ApplyFailure", !.reads = 1]
               ELSE IF ~doc.isNew /\ store = NoRecord
               THEN /\ doc' = [doc EXCEPT !.tree = h.tree]
                    /\ store' = store
                    /\ saved' = saved
                    /\ result' = [Call("save", 0, suppress) EXCEPT
                                     !.meta = meta, !.branch = h.branch, !.err = "NotFound"]
               ELSE /\ doc' = [doc EXCEPT !.isNew = FALSE, !.tree = h.tree, !.base = h.tree]
                    /\ store' = Persisted(doc, store, h.tree)
                    /\ saved' = Record(saved,
                                 IF h.branch = "BACKFILL"
                                 THEN [v \in {1, 2} |-> IF v = 1 THEN store ELSE store']
                                 ELSE One(Version(h.tree), store'))
                    /\ result' = [Call("save", 0, suppress) EXCEPT
                                     !.meta = meta, !.branch = h.branch,
                                     !.reads = IF h.branch = "VERSIONED" THEN 1 ELSE 0]

\* ------------------------------------------- save, a log or store call fails
\* The calls of the pre('save') hook and of the write after it that can be
\* rejected: load is findById of the BACKFILL branch or find of the VERSIONED
\* branch, append the first version.save(), append2 the second one of the
\* BACKFILL branch, write the write of the document itself.
SaveFaults == {"load", "append", "append2", "write"}

\* doc.<fields> = content; doc.save({metadata}) when the call named by fault
\* is rejected: what the hook assigned to the document stays assigned, the
\* appends made before the rejected call stay in the log.
SaveFault(content, meta, fault, b) ==
    /\ ~doc.deleted
    /\ calls < b
    /\ calls' = calls + 1
    /\ UNCHANGED <<store, saved, pending, trial, options, log_h, update, other>>
    /\ LET tree == Assign(doc.tree, content)
           h == preSave(doc, tree, store, log, meta)
           loads == h.branch \in {"BACKFILL", "NOTFOUND", "VERSIONED"}
           appends == IF h.error THEN 0 ELSE Len(h.appended)
           done == IF fault = "append2" THEN 1 ELSE IF fault = "write" THEN appends ELSE 0
       IN /\ \/ fault = "load" /\ loads
             \/ fault = "append" /\ appends >= 1
             \/ fault = "append2" /\ appends = 2
             \/ fault = "write" /\ ~h.error /\ h.branch # "NOTFOUND"
          /\ log' = log \o SubSeq(h.appended, 1, done)
          /\ doc' = [doc EXCEPT !.tree =
                        IF fault = "load" /\ h.branch # "VERSIONED" THEN tree ELSE h.tree]
          /\ result' = [Call("save", 0, FALSE) EXCEPT
                           !.meta = meta, !.branch = h.branch,
                           !.err = IF fault = "write" THEN "StoreFailure" ELSE "LogFailure",
                           !.reads = IF h.branch = "VERSIONED" /\ fault # "load" THEN 1 ELSE 0]

\* ------------------------------------------------- save, hook of index.ts
\* The pre('save') hook of src/src/index.ts: a document that is new or has no
\* version takes the first branch; the others replay the whole log.
preSaveUnawaited(d, tree, sets, meta) ==
    IF d.isNew \/ Version(tree) = NoVersion THEN preSaveNew(tree, meta)
    ELSE preSaveVersioned(tree, sets, meta)

\* doc.save() under that hook: version.save() is called and not awaited, then
\* next(): the document is written and the call returns while the insert of
\* the change-set is still on its way.
SaveUnawaited(content, meta, suppress, b) ==
    /\ ~doc.deleted
    /\ calls < b
    /\ calls' = calls + 1
    /\ UNCHANGED <<log, trial, options, log_h, update, other>>
    /\ LET tree == Assign(doc.tree, content)
           h == preSaveUnawaited(doc, tree, log, meta)
       IN IF disablePreSaveHook(suppress)
          THEN /\ doc' = [doc EXCEPT !.isNew = FALSE, !.tree = tree, !.base = tree]
               /\ store' = Persisted(doc, store, tree)
               /\ UNCHANGED <<saved, pending>>
               /\ result' = [Call("save", 0, suppress) EXCEPT
                                !.meta = meta, !.branch = "SUPPRESSED"]
          ELSE IF h.error
          THEN /\ doc' = [doc EXCEPT !.tree = h.tree]
               /\ UNCHANGED <<store, saved, pending>>
               /\ result' = [Call("save", 0, suppress) EXCEPT
                                !.meta = meta, !.branch = h.branch,
                                !.err = "ApplyFailure", !.reads = 1]
          ELSE /\ doc' = [doc EXCEPT !.isNew = FALSE, !.tree = h.tree, !.base = h.tree]
               /\ store' = Persisted(doc, store, h.tree)
               /\ pending' = pending \o h.appended
               /\ saved' = Record(saved, One(Version(h.tree), store'))
               /\ result' = [Call("save", 0, suppress) EXCEPT
                                !.meta = meta, !.branch = h.branch,
                                !.reads = IF h.branch = "VERSIONED" THEN 1 ELSE 0]

\* The insert of one change-set on its way completes.
CompleteAppend ==
    \E i \in 1..Len(pending) :
        /\ log' = Append(log, pending[i])
        /\ pending' = SubSeq(pending, 1, i - 1) \o SubSeq(pending, i + 1, Len(pending))
        /\ UNCHANGED <<doc, store, result, saved, calls, trial, options, log_h, update, other>>

\* ------------------------------------------------------- findOneAndUpdate
\* pre('findOneAndUpdate'): the version the update will set and the
\* retroactive change-set of a record that has no version.
\* Mutant: no retroactive change-set for a record that has no version.
preFindOneAndUpdateWithoutBackfill(found, meta) ==
    [version |-> IF Version(found) # NoVersion THEN Version(found) + 1 ELSE 2,
     appended |-> <<>>]

preFindOneAndUpdate(found, meta) ==
    LET currentVersion == Version(found)
    IN [version |-> IF currentVersion # NoVersion THEN currentVersion + 1 ELSE 2,
        appended |-> IF currentVersion = NoVersion
                     THEN <<ChangeSet(1, diff(EmptyObj, found), meta)>> ELSE <<>>]

\* post('findOneAndUpdate'): the change-set of the updated document.
postFindOneAndUpdate(updated, sets, meta) ==
    LET versions == findVersions(sets)
        previous == applyPatch(EmptyObj, concatPatches(versions))
    IN IF previous.error THEN [error |-> TRUE, appended |-> <<>>]
       ELSE [error |-> FALSE,
             appended |-> <<ChangeSet(Version(updated), diff(previous.newDocument, updated), meta)>>]

FindOneAndUpdate(content, meta, suppress, b) ==
    /\ calls < b
    /\ calls' = calls + 1
    /\ UNCHANGED <<pending, trial, options, update, other>>
    /\ IF store = NoRecord
       THEN /\ UNCHANGED <<doc, store, log, log_h, saved>>
            /\ result' = [Call("findOneAndUpdate", 0, suppress) EXCEPT
                             !.meta = meta,
                             !.err = IF suppress THEN "none" ELSE "TypeError"]
       ELSE IF suppress
       THEN /\ store' = Assign(store, content)
            /\ UNCHANGED <<doc, log, log_h, saved>>
            /\ result' = [Call("findOneAndUpdate", 0, suppress) EXCEPT
                             !.meta = meta, !.val = store']
       ELSE LET sets == IF options.collection THEN log_h ELSE log
                pre == preFindOneAndUpdate(store, meta)
                versioned == Put(Assign(store, content), versionKey, Leaf(pre.version))
                updated == IF options.addDateToDocument
                           THEN Put(versioned, versionDateKey, Leaf(date)) ELSE versioned
                post == postFindOneAndUpdate(updated, sets \o pre.appended, meta)
                written == sets \o pre.appended \o post.appended
            IN /\ store' = updated
               /\ log' = IF options.collection THEN log ELSE written
               /\ log_h' = IF options.collection THEN written ELSE log_h
               /\ doc' = doc
               /\ saved' = Record(saved,
                            IF Version(store) = NoVersion
                            THEN [v \in {1, 2} |-> IF v = 1 THEN store ELSE updated]
                            ELSE One(pre.version, updated))
               /\ result' = [Call("findOneAndUpdate", 0, suppress) EXCEPT
                                !.meta = meta,
                                !.err = IF post.error THEN "ApplyFailure" ELSE "none",
                                !.val = updated, !.reads = 1]

\* findOneAndUpdate as its two steps, with other writers in between. The
\* filter matches the first document alone ({_id}) or every stored document
\* of the collection; the records it matches now, by _id.
Filters == {"one", "many"}
matching(filter) ==
    (IF store # NoRecord THEN {IdValue} ELSE {})
    \cup (IF filter = "many" /\ other # NoRecord THEN {OtherId} ELSE {})
stored(id) == IF id = IdValue THEN store ELSE other

\* pre('findOneAndUpdate'): findOne(filter) reads one of the matching
\* records, the version for the update is computed from it and a record
\* without version gets its change-set of version 1.
FindOneAndUpdatePre(filter, content, meta, b) ==
    /\ ~update.active
    /\ calls < b
    /\ calls' = calls + 1
    /\ UNCHANGED <<doc, store, other, saved, pending, trial, options>>
    /\ \E read \in matching(filter) :
         LET sets == IF options.collection THEN log_h ELSE log
             pre == preFindOneAndUpdate(stored(read), meta)
             appended == [i \in 1..Len(pre.appended) |->
                             [pre.appended[i] EXCEPT !.parent = read]]
             written == sets \o appended
         IN /\ log' = IF options.collection THEN log ELSE written
            /\ log_h' = IF options.collection THEN written ELSE log_h
            /\ update' = [active |-> TRUE, filter |-> filter, content |-> content,
                          meta |-> meta, version |-> pre.version, date |-> date,
                          read |-> read, backfilled |-> appended # <<>>]
            /\ result' = [Call("findOneAndUpdatePre", 0, FALSE) EXCEPT !.meta = meta]

\* The update itself, on one of the records the filter matches by now, and
\* post('findOneAndUpdate') on the updated record.
FindOneAndUpdateApply ==
    /\ update.active
    /\ update' = NoUpdate
    /\ UNCHANGED <<doc, calls, pending, trial, options>>
    /\ IF matching(update.filter) = {}
       THEN /\ UNCHANGED <<store, other, log, log_h, saved>>
            /\ result' = [Call("findOneAndUpdate", 0, FALSE) EXCEPT
                             !.meta = update.meta, !.err = "TypeError"]
       ELSE \E target \in matching(update.filter) :
            LET sets == IF options.collection THEN log_h ELSE log
                versioned == Put(Assign(stored(target), update.content),
                                 versionKey, Leaf(update.version))
                updated == IF options.addDateToDocument
                           THEN Put(versioned, versionDateKey, Leaf(update.date))
                           ELSE versioned
                versions == sortByVersion(ofParent(sets, target))
                previous == applyPatch(EmptyObj, concatPatches(versions))
                appended == IF previous.error THEN <<>>
                            ELSE <<[ChangeSet(Version(updated),
                                              diff(previous.newDocument, updated),
                                              update.meta)
                                       EXCEPT !.parent = target]>>
                written == sets \o appended
            IN /\ store' = IF target = IdValue THEN updated ELSE store
               /\ other' = IF target = OtherId THEN updated ELSE other
               /\ log' = IF options.collection THEN log ELSE written
               /\ log_h' = IF options.collection THEN written ELSE log_h
               /\ saved' = saved
               /\ result' = [Call("findOneAndUpdate", 0, FALSE) EXCEPT
                                !.meta = update.meta,
                                !.err = IF previous.error THEN "ApplyFailure" ELSE "none",
                                !.val = updated, !.reads = 1]

\* The calls of findOneAndUpdate that can be rejected: load is findOne of the
\* pre hook, append the version.save() of the pre hook (a record without
\* version), write the update itself, post the find or the version.save() of
\* the post hook.
FindOneAndUpdateFaults == {"load", "append", "write", "post"}

\* Model.findOneAndUpdate({_id}, content, {metadata}) when the call named by
\* fault is rejected: the change-set the pre hook appended and the update
\* written before the rejected call stay.
FindOneAndUpdateFault(content, meta, fault, b) ==
    /\ store # NoRecord
    /\ calls < b
    /\ calls' = calls + 1
    /\ UNCHANGED <<doc, pending, trial, options, update, other>>
    /\ LET sets == IF options.collection THEN log_h ELSE log
           pre == preFindOneAndUpdate(store, meta)
           versioned == Put(Assign(store, content), versionKey, Leaf(pre.version))
           updated == IF options.addDateToDocument
                      THEN Put(versioned, versionDateKey, Leaf(date)) ELSE versioned
           written == IF fault \in {"write", "post"} THEN sets \o pre.appended ELSE sets
       IN /\ fault = "append" => pre.appended # <<>>
          /\ store' = IF fault = "post" THEN updated ELSE store
          /\ log' = IF options.collection THEN log ELSE written
          /\ log_h' = IF options.collection THEN written ELSE log_h
          /\ saved' = IF fault = "post" THEN Record(saved, One(pre.version, updated)) ELSE saved
          /\ result' = [Call("findOneAndUpdate", 0, FALSE) EXCEPT
                           !.meta = meta,
                           !.err = IF fault = "write" THEN "StoreFailure" ELSE "LogFailure",
                           !.reads = IF fault = "post" THEN 1 ELSE 0]

\* -------------------------------------------------------------- getVersion
\* The range check of getVersion; a comparison with an absent version is false.
\* Mutant: the lower bound of the range check off by one.
invalidVersionFromZero(versionNumber, current) ==
    versionNumber < 0 \/ (current # NoVersion /\ versionNumber > current)

invalidVersion(versionNumber, current) ==
    versionNumber < 1 \/ (current # NoVersion /\ versionNumber > current)

getVersion(tree, sets, versionNumber) ==
    IF invalidVersion(versionNumber, Version(tree))
    THEN [err |-> "InvalidVersion", val |-> NoRecord, reads |-> 0]
    ELSE LET results == findVersionsLte(sets, versionNumber)
             r == applyPatch(EmptyObj, concatPatches(results))
         IN IF r.error THEN [err |-> "ApplyFailure", val |-> NoRecord, reads |-> 1]
            ELSE [err |-> "none", val |-> r.newDocument, reads |-> 1]

\* Mutant: the change-sets applied to the document itself instead of {}.
GetVersionInPlace(versionNumber, cb) ==
    LET r == getVersion(doc.tree, log, versionNumber) IN
    /\ doc' = [doc EXCEPT !.tree = IF r.err = "none" THEN r.val ELSE @]
    /\ UNCHANGED <<store, log, saved, calls, pending, trial, options, log_h, update, other>>
    /\ result' = Report([Call("getVersion", versionNumber, FALSE) EXCEPT
                            !.err = r.err, !.val = r.val, !.reads = r.reads],
                        cb, IF r.err = "none" THEN "returned" ELSE "cbThrow")

\* doc.getVersion(versionNumber, cb): the error goes to cb and is thrown,
\* the snapshot is returned and never passed to cb.
GetVersion(versionNumber, cb) ==
    LET r == getVersion(doc.tree, log, versionNumber) IN
    /\ UNCHANGED <<doc, store, log, saved, calls, pending, trial, options, log_h, update, other>>
    /\ result' = Report([Call("getVersion", versionNumber, FALSE) EXCEPT
                            !.err = r.err, !.val = r.val, !.reads = r.reads],
                        cb, IF r.err = "none" THEN "returned" ELSE "cbThrow")

\* ---------------------------------------------------------------- rollback
\* where('version').lt(v).sort({version: -1}).limit(1): the positions of the
\* change-sets that query may return (any of those with the greatest version).
\* Mutant: the query with lte(v) in place of lt(v).
previousVersionsLte(sets, v) ==
    IF v = NoVersion THEN {}
    ELSE {i \in 1..Len(sets) :
            /\ hasParent(sets[i], IdValue) /\ sets[i].version <= v
            /\ \A j \in 1..Len(sets) :
                  (hasParent(sets[j], IdValue) /\ sets[j].version <= v)
                  => sets[j].version <= sets[i].version}

previousVersions(sets, v) ==
    IF v = NoVersion THEN {}
    ELSE {i \in 1..Len(sets) :
            /\ hasParent(sets[i], IdValue) /\ sets[i].version < v
            /\ \A j \in 1..Len(sets) :
                  (hasParent(sets[j], IdValue) /\ sets[j].version < v)
                  => sets[j].version <= sets[i].version}

\* Mutant: the stored operations applied onto an empty value, as in a
\* replay, in place of the document's current state.
applyPatchOntoEmpty(tree, patches) == applyPatch(EmptyObj, patches)

\* const {newDocument} = applyPatch(this, previousVersion.patches)
applyPatchOntoThis(tree, patches) == applyPatch(tree, patches)

Rollback(cb, b) ==
    /\ calls < b
    /\ calls' = calls + 1
    /\ UNCHANGED <<pending, trial, options, log_h, update, other>>
    /\ IF Version(doc.tree) = 1
       THEN /\ store' = NoRecord
            /\ log' = deleteOne(log, 1)
            /\ doc' = [doc EXCEPT !.deleted = TRUE]
            /\ saved' = saved
            /\ result' = Report([Call("rollback", 0, FALSE) EXCEPT !.branch = "DELETED"],
                        cb, "cbReturn")
       ELSE IF previousVersions(log, Version(doc.tree)) = {}
       THEN /\ UNCHANGED <<doc, store, log, saved>>
            /\ result' = Report([Call("rollback", 0, FALSE) EXCEPT
                             !.err = "NoPreviousVersion", !.reads = 1],
                        cb, "cbReturn")
       ELSE \E i \in previousVersions(log, Version(doc.tree)) :
            LET previousVersion == log[i]
                r == applyPatchOntoThis(doc.tree, previousVersion.patches)
                restored == Put(r.newDocument, versionKey, Leaf(previousVersion.version))
            IN IF r.error
               THEN /\ doc' = [doc EXCEPT !.tree = r.newDocument]
                    /\ UNCHANGED <<store, log, saved>>
                    /\ result' = Report([Call("rollback", 0, FALSE) EXCEPT
                                     !.err = "ApplyFailure", !.reads = 1],
                        cb, "cbReturn")
               ELSE IF ~doc.isNew /\ store = NoRecord
               THEN /\ doc' = [doc EXCEPT !.tree = restored]
                    /\ UNCHANGED <<store, log, saved>>
                    /\ result' = Report([Call("rollback", 0, FALSE) EXCEPT
                                     !.err = "NotFound", !.reads = 1],
                        cb, "cbReturn")
               ELSE /\ doc' = [doc EXCEPT !.isNew = FALSE, !.tree = restored, !.base = restored]
                    /\ store' = Persisted(doc, store, restored)
                    /\ log' = deleteOne(log, Version(restored) + 1)
                    /\ saved' = saved
                    /\ result' = Report([Call("rollback", 0, FALSE) EXCEPT
                                     !.branch = "RESTORED", !.val = restored, !.reads = 1],
                        cb, "cbReturn")

\* The calls of rollback that can be rejected: query is the query for the
\* previous change-set, write the deleteOne of a record at version 1 or the
\* save of the restored record, delete the deleteOne of the change-set.
RollbackFaults == {"query", "write", "delete"}

\* doc.rollback(cb) when the call named by fault is rejected: what was
\* assigned to the document and what was written before the rejected call
\* stay. The two deleteOne calls of a record at version 1 are outside the
\* try block, the query has its own catch, the rest is inside the try.
RollbackFault(fault, cb, b) ==
    /\ calls < b
    /\ calls' = calls + 1
    /\ UNCHANGED <<log, saved, pending, trial, options, log_h, update, other>>
    /\ IF Version(doc.tree) = 1
       THEN /\ fault \in {"write", "delete"}
            /\ store' = IF fault = "delete" THEN NoRecord ELSE store
            /\ doc' = [doc EXCEPT !.deleted = IF fault = "delete" THEN TRUE ELSE doc.deleted]
            /\ result' = Report([Call("rollback", 0, FALSE) EXCEPT
                             !.err = IF fault = "write" THEN "StoreFailure" ELSE "LogFailure"],
                        cb, "thrown")
       ELSE IF fault = "query"
       THEN /\ UNCHANGED <<doc, store>>
            /\ result' = Report([Call("rollback", 0, FALSE) EXCEPT !.err = "LogFailure"],
                        cb, "cbTwice")
       ELSE \E i \in previousVersions(log, Version(doc.tree)) :
            LET previousVersion == log[i]
                r == applyPatchOntoThis(doc.tree, previousVersion.patches)
                restored == Put(r.newDocument, versionKey, Leaf(previousVersion.version))
            IN /\ ~r.error
               /\ ~(~doc.isNew /\ store = NoRecord)
               /\ IF fault = "write"
                  THEN /\ doc' = [doc EXCEPT !.tree = restored]
                       /\ store' = store
                       /\ result' = Report([Call("rollback", 0, FALSE) EXCEPT
                                        !.err = "StoreFailure", !.reads = 1],
                        cb, "cbReturn")
                  ELSE /\ doc' = [doc EXCEPT !.isNew = FALSE, !.tree = restored,
                                             !.base = restored]
                       /\ store' = Persisted(doc, store, restored)
                       /\ result' = Report([Call("rollback", 0, FALSE) EXCEPT
                                        !.err = "LogFailure", !.val = restored, !.reads = 1],
                        cb, "cbReturn")

\* ------------------------------------------------------------------ reload
\* Model.findById(_id): the handle becomes a fresh copy of the stored record.
Reload(b) ==
    /\ store # NoRecord
    /\ calls < b
    /\ calls' = calls + 1
    /\ doc' = [isNew |-> FALSE, deleted |-> FALSE, tree |-> store, base |-> store]
    /\ UNCHANGED <<store, log, saved, pending, trial, options, log_h, update, other>>
    /\ result' = Call("reload", 0, FALSE)

\* --------------------------------------------------------- record deleted
\* Another client deletes the stored record; the handle stays as it is, and
\* findById(this._id) of a later save finds nothing.
RecordDeleted(b) ==
    /\ store # NoRecord
    /\ calls < b
    /\ calls' = calls + 1
    /\ store' = NoRecord
    /\ UNCHANGED <<doc, log, saved, pending, trial, options, log_h, update, other>>
    /\ result' = Call("deleted", 0, FALSE)

\* ---------------------------------------------------- the second document
\* A save of the second document of the collection through a handle of its
\* own that is a current copy of it: the NEW branch when it is not stored
\* yet, else the VERSIONED branch, over the change-sets of its own parent.
OtherSave(content, meta, b) ==
    /\ calls < b
    /\ calls' = calls + 1
    /\ UNCHANGED <<doc, store, saved, pending, trial, options, log_h, update>>
    /\ LET tree == IF other = NoRecord
                   THEN Assign(Obj([k \in {"_id"} |-> Leaf(OtherId)]), content)
                   ELSE Assign(other, content)
           version == IF other = NoRecord THEN 1 ELSE Version(other) + 1
           newVersion == setVersionDate(Put(tree, versionKey, Leaf(version)))
           versions == sortByVersion(ofParent(log, OtherId))
           previous == applyPatch(EmptyObj, concatPatches(versions))
       IN /\ ~previous.error
          /\ other' = newVersion
          /\ log' = Append(log, [ChangeSet(version, diff(previous.newDocument, newVersion), meta)
                                    EXCEPT !.parent = OtherId])
          /\ result' = [Call("otherSave", 0, FALSE) EXCEPT !.meta = meta]

\* ------------------------------------------------------------ specification
SaveStep == \E c \in Contents, m \in Metadata, s \in BOOLEAN : Save(c, m, s, MaxCalls)
FindOneAndUpdateStep ==
    \E c \in Contents, m \in Metadata, s \in BOOLEAN :
        FindOneAndUpdate(c, m, s, MaxCalls)
GetVersionStep == \E k \in 0..(MaxCalls + 1) : GetVersion(k, FALSE)
RollbackStep == Rollback(FALSE, MaxCalls)
ReloadStep == Reload(MaxCalls)

Next ==
    \/ SaveStep
    \/ FindOneAndUpdateStep
    \/ GetVersionStep
    \/ RollbackStep
    \/ ReloadStep

Spec == Init /\ [][Next]_vars

\* The same program with the pre-save hook never suppressed, a record that is
\* created without a version, and two contents: histories one call longer.
DeepContents == {[name |-> "A", ob |-> "absent"], [name |-> "B", ob |-> "x"]}

DeepInit ==
    /\ \E c \in DeepContents :
           doc = [isNew |-> TRUE, deleted |-> FALSE, tree |-> NewTree(c, NoVersion),
                  base |-> EmptyObj]
    /\ store = NoRecord
    /\ log = <<>>
    /\ result = Call("init", 0, FALSE)
    /\ saved = EmptyFun
    /\ calls = 0
    /\ pending = <<>>
    /\ trial = NoTrial
    /\ options = NoOptions
    /\ log_h = <<>>
    /\ update = NoUpdate
    /\ other = NoRecord

DeepSaveStep == \E c \in DeepContents, m \in Metadata : Save(c, m, FALSE, DeepMaxCalls)
DeepFindOneAndUpdateStep ==
    \E c \in DeepContents, m \in Metadata : FindOneAndUpdate(c, m, FALSE, DeepMaxCalls)
DeepGetVersionStep == \E k \in 0..(DeepMaxCalls + 1) : GetVersion(k, FALSE)
DeepRollbackStep == Rollback(FALSE, DeepMaxCalls)
DeepReloadStep == Reload(DeepMaxCalls)

NextDeep ==
    \/ DeepSaveStep
    \/ DeepFindOneAndUpdateStep
    \/ DeepGetVersionStep
    \/ DeepRollbackStep
    \/ DeepReloadStep

SpecDeep == DeepInit /\ [][NextDeep]_vars

\* The save hook of src/src/index.ts, with getVersion and reload.
UnawaitedSaveStep ==
    \E c \in DeepContents, m \in Metadata, s \in BOOLEAN :
        SaveUnawaited(c, m, s, UnawaitedMaxCalls)
UnawaitedGetVersionStep == \E k \in 0..(UnawaitedMaxCalls + 1) : GetVersion(k, FALSE)
UnawaitedReloadStep == Reload(UnawaitedMaxCalls)

NextUnawaited ==
    \/ UnawaitedSaveStep
    \/ CompleteAppend
    \/ UnawaitedGetVersionStep
    \/ UnawaitedReloadStep

SpecUnawaited == DeepInit /\ [][NextUnawaited]_vars

\* diff and applyPatch as the hooks use them, on every pair of snapshots made
\* of the keys a, b and a/b: a scalar, or for a an object holding b.
SnapshotValues ==
    [a |-> {"absent", "p", "empty", "bp", "bq"}, b |-> {"absent", "p"}, s |-> {"absent", "p", "q"}]
SnapshotValue(x) ==
    IF x = "empty" THEN EmptyObj
    ELSE IF x = "bp" THEN Obj([k \in {"b"} |-> Leaf("p")])
    ELSE IF x = "bq" THEN Obj([k \in {"b"} |-> Leaf("q")])
    ELSE Leaf(x)
Snapshot(x, y, z) ==
    LET given == [k \in {"a", "b", SlashKey} |-> IF k = "a" THEN x ELSE IF k = "b" THEN y ELSE z]
    IN Obj([k \in {k \in DOMAIN given : given[k] # "absent"} |-> SnapshotValue(given[k])])
Snapshots ==
    {Snapshot(x, y, z) : x \in SnapshotValues.a, y \in SnapshotValues.b, z \in SnapshotValues.s}

RoundTripInit ==
    /\ doc = [isNew |-> TRUE, deleted |-> FALSE, tree |-> EmptyObj, base |-> EmptyObj]
    /\ store = NoRecord
    /\ log = <<>>
    /\ result = Call("init", 0, FALSE)
    /\ saved = EmptyFun
    /\ calls = 0
    /\ pending = <<>>
    /\ options = NoOptions
    /\ log_h = <<>>
    /\ update = NoUpdate
    /\ other = NoRecord
    /\ \E a \in Snapshots, b \in Snapshots : trial = [NoTrial EXCEPT !.a = a, !.b = b]

\* const {newDocument} = applyPatch(a, diff(a, b, jsonPatchPathConverter))
RoundTrip ==
    /\ ~trial.done
    /\ LET r == applyPatch(trial.a, diff(trial.a, trial.b))
       IN trial' = [trial EXCEPT !.done = TRUE, !.out = r.newDocument, !.error = r.error]
    /\ UNCHANGED <<doc, store, log, result, saved, calls, pending, options, log_h, update, other>>

NextRoundTrip == RoundTrip

SpecRoundTrip == RoundTripInit /\ [][NextRoundTrip]_vars

\* The plugin over a log and a store whose calls can be rejected.
FaultSaveStep ==
    \E c \in DeepContents, m \in Metadata, s \in BOOLEAN : Save(c, m, s, FaultMaxCalls)
FaultSaveFaultStep ==
    \E c \in DeepContents, m \in Metadata, f \in SaveFaults : SaveFault(c, m, f, FaultMaxCalls)
FaultFindOneAndUpdateStep ==
    \E c \in DeepContents, m \in Metadata : FindOneAndUpdate(c, m, FALSE, FaultMaxCalls)
FaultFindOneAndUpdateFaultStep ==
    \E c \in DeepContents, m \in Metadata, f \in FindOneAndUpdateFaults :
        FindOneAndUpdateFault(c, m, f, FaultMaxCalls)
FaultRollbackStep == Rollback(FALSE, FaultMaxCalls)
FaultRollbackFaultStep == \E f \in RollbackFaults : RollbackFault(f, FALSE, FaultMaxCalls)
FaultReloadStep == Reload(FaultMaxCalls)

NextFaults ==
    \/ FaultSaveStep
    \/ FaultSaveFaultStep
    \/ FaultFindOneAndUpdateStep
    \/ FaultFindOneAndUpdateFaultStep
    \/ FaultRollbackStep
    \/ FaultRollbackFaultStep
    \/ FaultReloadStep

SpecFaults == DeepInit /\ [][NextFaults]_vars

\* The plugin with rollbacks whose log and store calls can be rejected.
RollbackMaxCalls == 4

RollbackSaveStep ==
    \E c \in DeepContents, m \in Metadata : Save(c, m, FALSE, RollbackMaxCalls)
RollbackFindOneAndUpdateStep ==
    \E c \in DeepContents, m \in Metadata : FindOneAndUpdate(c, m, FALSE, RollbackMaxCalls)
RollbackRollbackStep == Rollback(FALSE, RollbackMaxCalls)
RollbackRollbackFaultStep == \E f \in RollbackFaults : RollbackFault(f, FALSE, RollbackMaxCalls)
RollbackReloadStep == Reload(RollbackMaxCalls)

NextRollback ==
    \/ RollbackSaveStep
    \/ RollbackFindOneAndUpdateStep
    \/ RollbackRollbackStep
    \/ RollbackRollbackFaultStep
    \/ RollbackReloadStep

SpecRollback == DeepInit /\ [][NextRollback]_vars

\* One handle that saves the record and rolls it back, over the contents
\* whose nested field is added, replaced and removed.
SuccessiveMaxCalls == 5

SuccessiveInit ==
    /\ \E c \in Contents :
           doc = [isNew |-> TRUE, deleted |-> FALSE, tree |-> NewTree(c, NoVersion),
                  base |-> EmptyObj]
    /\ store = NoRecord
    /\ log = <<>>
    /\ result = Call("init", 0, FALSE)
    /\ saved = EmptyFun
    /\ calls = 0
    /\ pending = <<>>
    /\ trial = NoTrial
    /\ options = NoOptions
    /\ log_h = <<>>
    /\ update = NoUpdate
    /\ other = NoRecord

SuccessiveSaveStep ==
    \E c \in Contents, m \in Metadata : Save(c, m, FALSE, SuccessiveMaxCalls)
SuccessiveRollbackStep == Rollback(FALSE, SuccessiveMaxCalls)

NextSuccessive ==
    \/ SuccessiveSaveStep
    \/ SuccessiveRollbackStep

SpecSuccessive == SuccessiveInit /\ [][NextSuccessive]_vars

\* Two documents of the collection, each saved through its own handle.
ParentsMaxCalls == 4

ParentsSaveStep ==
    \E c \in DeepContents, m \in Metadata : Save(c, m, FALSE, ParentsMaxCalls)
ParentsOtherSaveStep ==
    \E c \in DeepContents, m \in Metadata : OtherSave(c, m, ParentsMaxCalls)
ParentsGetVersionStep == \E k \in 0..(ParentsMaxCalls + 1) : GetVersion(k, FALSE)
ParentsRollbackStep == Rollback(FALSE, ParentsMaxCalls)
ParentsReloadStep == Reload(ParentsMaxCalls)

NextParents ==
    \/ ParentsSaveStep
    \/ ParentsOtherSaveStep
    \/ ParentsGetVersionStep
    \/ ParentsRollbackStep
    \/ ParentsReloadStep

SpecParents == DeepInit /\ [][NextParents]_vars

\* Two documents and writers whose calls interleave with the two steps of a
\* findOneAndUpdate.
ConcurrentMaxCalls == 4

ConcurrentSaveStep ==
    \E c \in DeepContents, m \in Metadata, s \in BOOLEAN : Save(c, m, s, ConcurrentMaxCalls)
ConcurrentOtherSaveStep ==
    \E c \in DeepContents, m \in Metadata : OtherSave(c, m, ConcurrentMaxCalls)
ConcurrentFindOneAndUpdatePreStep ==
    \E f \in Filters, c \in DeepContents, m \in Metadata :
        FindOneAndUpdatePre(f, c, m, ConcurrentMaxCalls)
ConcurrentFindOneAndUpdateApplyStep == FindOneAndUpdateApply
ConcurrentReloadStep == Reload(ConcurrentMaxCalls)

NextConcurrent ==
    \/ ConcurrentSaveStep
    \/ ConcurrentOtherSaveStep
    \/ ConcurrentFindOneAndUpdatePreStep
    \/ ConcurrentFindOneAndUpdateApplyStep
    \/ ConcurrentReloadStep

SpecConcurrent == DeepInit /\ [][NextConcurrent]_vars

\* The same record written by callers that pass the metadata option or leave
\* it out, the pre-save hook never suppressed.
CallerMetadata == {NoMeta, "m1"}

MetaSaveStep ==
    \E c \in DeepContents, m \in CallerMetadata : Save(c, m, FALSE, MetaMaxCalls)
MetaFindOneAndUpdateStep ==
    \E c \in DeepContents, m \in CallerMetadata : FindOneAndUpdate(c, m, FALSE, MetaMaxCalls)
MetaRollbackStep == Rollback(FALSE, MetaMaxCalls)
MetaReloadStep == Reload(MetaMaxCalls)

NextMeta ==
    \/ MetaSaveStep
    \/ MetaFindOneAndUpdateStep
    \/ MetaRollbackStep
    \/ MetaReloadStep

SpecMeta == DeepInit /\ [][NextMeta]_vars

\* A record first stored without versioning (the pre-save hook suppressed),
\* then written by callers that pass the metadata option or leave it out.
LegacyMaxCalls == 3

LegacySaveStep ==
    \E c \in DeepContents, m \in CallerMetadata, s \in BOOLEAN : Save(c, m, s, LegacyMaxCalls)
LegacyFindOneAndUpdateStep ==
    \E c \in DeepContents, m \in CallerMetadata : FindOneAndUpdate(c, m, FALSE, LegacyMaxCalls)
LegacyReloadStep == Reload(LegacyMaxCalls)
LegacyRecordDeletedStep == RecordDeleted(LegacyMaxCalls)
LegacyGetVersionStep == \E k \in 0..(LegacyMaxCalls + 1) : GetVersion(k, FALSE)

NextLegacy ==
    \/ LegacySaveStep
    \/ LegacyFindOneAndUpdateStep
    \/ LegacyReloadStep
    \/ LegacyRecordDeletedStep
    \/ LegacyGetVersionStep

SpecLegacy == DeepInit /\ [][NextLegacy]_vars

\* The plugin installed with any of the options collection, trackDate and
\* addDateToDocument.
OptionsMaxCalls == 3
Options == [collection : BOOLEAN, trackDate : BOOLEAN, addDateToDocument : BOOLEAN]

OptionsInit ==
    /\ \E c \in DeepContents :
           doc = [isNew |-> TRUE, deleted |-> FALSE, tree |-> NewTree(c, NoVersion),
                  base |-> EmptyObj]
    /\ store = NoRecord
    /\ log = <<>>
    /\ result = Call("init", 0, FALSE)
    /\ saved = EmptyFun
    /\ calls = 0
    /\ pending = <<>>
    /\ trial = NoTrial
    /\ options \in Options
    /\ log_h = <<>>
    /\ update = NoUpdate
    /\ other = NoRecord

OptionsSaveStep ==
    \E c \in DeepContents, m \in Metadata : Save(c, m, FALSE, OptionsMaxCalls)
OptionsFindOneAndUpdateStep ==
    \E c \in DeepContents, m \in Metadata : FindOneAndUpdate(c, m, FALSE, OptionsMaxCalls)
OptionsGetVersionStep == \E k \in 1..OptionsMaxCalls : GetVersion(k, FALSE)
OptionsRollbackStep == Rollback(FALSE, OptionsMaxCalls)
OptionsReloadStep == Reload(OptionsMaxCalls)

NextOptions ==
    \/ OptionsSaveStep
    \/ OptionsFindOneAndUpdateStep
    \/ OptionsGetVersionStep
    \/ OptionsRollbackStep
    \/ OptionsReloadStep

SpecOptions == OptionsInit /\ [][NextOptions]_vars

\* ------------------------------------------------------------------ claims
LogVersions == {log[i].version : i \in 1..Len(log)}
StoredVersion == IF store = NoRecord THEN NoVersion ELSE Version(store)
\* Replay of the change-sets of version <= n, in ascending version order, onto {}.
Replay(sets, n) == applyPatch(EmptyObj, concatPatches(findVersionsLte(sets, n)))
\* The step is a call of op (the calls that change nothing stutter).
Called(op) == result'.op = op /\ vars' # vars
NonSuppressedSave == Called("save") /\ ~result'.suppress
\* log2 is log1 with exactly n change-sets appended.
Appends(log1, log2, n) == Len(log2) = Len(log1) + n /\ SubSeq(log2, 1, Len(log1)) = log1

\* C1: in every quiescent state the versions of the stored change-sets are
\* exactly 1..version of the stored record, without gap or duplicate.
C1_Contiguity ==
    /\ LogVersions = 1..StoredVersion
    /\ Len(log) = StoredVersion

\* C2: after a successful non-suppressed save or findOneAndUpdate that leaves
\* the record at version V, the replay of change-sets 1..V onto the empty
\* value is exactly the state that call persisted.
C2_ReplayEquivalence ==
    (result.op \in {"save", "findOneAndUpdate"} /\ ~result.suppress /\ result.err = "none")
    => LET r == Replay(log, Version(store))
       IN ~r.error /\ r.newDocument = store

\* C3: a non-suppressed save of a new record without persisted counterpart,
\* its version absent or 1, sets the version to 1 and appends exactly one
\* change-set, at version 1, with operations diff({}, new state).
C3_NewSave ==
    [][(NonSuppressedSave /\ doc.isNew /\ store = NoRecord /\ Version(doc.tree) \in {NoVersion, 1})
       => /\ Version(doc'.tree) = 1
          /\ Appends(log, log', 1)
          /\ log'[Len(log')].version = 1
          /\ log'[Len(log')].patches = diff(EmptyObj, doc'.tree)]_vars

\* C4: a non-suppressed save of a record carrying version V >= 1 sets its
\* version to V+1 and appends exactly one change-set, with version V+1 and
\* operations diff(Snapshot(V), new state), leaving the others as they were.
C4_VersionedSave ==
    [][(NonSuppressedSave /\ Version(doc.tree) >= 1 /\ result'.err = "none")
       => /\ Version(doc'.tree) = Version(doc.tree) + 1
          /\ Appends(log, log', 1)
          /\ log'[Len(log')].version = Version(doc.tree) + 1
          /\ log'[Len(log')].patches =
                diff(Replay(log, Version(doc.tree)).newDocument, doc'.tree)]_vars

C6_GetVersionSnapshot ==
    (result.op = "getVersion" /\ 1 <= result.k /\ result.k <= Version(doc.tree)
       /\ store # NoRecord /\ doc.tree = store)
    => /\ result.err = "none"
       /\ result.val = Replay(log, result.k).newDocument
       /\ result.k \in DOMAIN saved
       /\ result.val = saved[result.k]

\* C7: getVersion(record, k) with k < 1 or k > record.version fails with
\* InvalidVersion, reads no change-set and returns no snapshot.
C7_InvalidVersion ==
    (result.op = "getVersion"
       /\ (result.k < 1 \/ (Version(doc.tree) # NoVersion /\ result.k > Version(doc.tree))))
    => result.err = "InvalidVersion" /\ result.reads = 0 /\ result.val = NoRecord
C7_Witness ==
    /\ result.op = "getVersion" /\ result.err = "InvalidVersion"
    /\ Version(doc.tree) >= 1 /\ result.k > Version(doc.tree)
    /\ Len(log) >= 1

C9_RollbackDecrement ==
    [][(Called("rollback") /\ Version(doc.tree) > 1)
       => /\ store' # NoRecord
          /\ Version(store') = Version(doc.tree) - 1
          /\ Len(log') = Len(log) - 1
          /\ \E i \in 1..Len(log) :
                /\ log[i].version = Version(doc.tree)
                /\ log' = SubSeq(log, 1, i - 1) \o SubSeq(log, i + 1, Len(log))]_vars

\* C10: after a rollback of a record at version V > 1 the persisted record
\* equals Snapshot(V-1), what getVersion(record, V-1) returned before it.
C10_RollbackRestores ==
    [][(Called("rollback") /\ Version(doc.tree) > 1 /\ result'.err = "none")
       => /\ getVersion(doc.tree, log, Version(doc.tree) - 1).err = "none"
          /\ store' = getVersion(doc.tree, log, Version(doc.tree) - 1).val]_vars

\* C11: rollback of a record at version 1 deletes the record and the
\* change-set at version 1: afterwards the record does not exist and no
\* change-set remains for its id.
C11_RollbackTerminal ==
    [][(Called("rollback") /\ Version(doc.tree) = 1 /\ store # NoRecord)
       => /\ store' = NoRecord
          /\ log' = <<>>]_vars

\* C12: a save called with the suppression flag appends no change-set, reads
\* no change-set and leaves the version field as the caller proposed it, in
\* memory and (for a copy whose version is the stored one, or a new record)
\* in the store, whether the record is new, unversioned or versioned.
C12_Suppression ==
    [][(Called("save") /\ result'.suppress)
       => /\ log' = log
          /\ result'.reads = 0
          /\ Version(doc'.tree) = Version(doc.tree)
          /\ (store = NoRecord \/ Version(store) = Version(doc.tree))
                => Version(store') = Version(doc.tree)]_vars
C12_Witness ==
    /\ result.op = "save" /\ result.suppress
    /\ Version(doc.tree) >= 1 /\ Version(store) = Version(doc.tree)
    /\ Len(log) >= 1

\* C13: the change-set appended for the new version by a non-suppressed save
\* or findOneAndUpdate called with metadata m stores exactly m (none when no
\* metadata was passed), and no save, findOneAndUpdate or rollback changes
\* an existing change-set: the earlier ones stay as they were, a rollback
\* removes at most one.
C13_MetadataVerbatim ==
    [][/\ ((Called("save") \/ Called("findOneAndUpdate"))
             /\ ~result'.suppress /\ result'.err = "none")
          => /\ Len(log') > Len(log)
             /\ log'[Len(log')].metadata = result'.meta
       /\ (Called("save") \/ Called("findOneAndUpdate"))
          => SubSeq(log', 1, Len(log)) = log
       /\ Called("rollback")
          => \/ log' = log
             \/ \E i \in 1..Len(log) :
                   log' = SubSeq(log, 1, i - 1) \o SubSeq(log, i + 1, Len(log))]_vars
C13_Witness ==
    /\ result.op \in {"save", "findOneAndUpdate"} /\ result.meta = "m1"
    /\ Len(log) >= 2
    /\ log[Len(log)].metadata = "m1"
    /\ log[1].metadata = NoMeta

\* C14: an append at a (parent, version) that already holds a change-set
\* fails with VersionConflict, so of two writers that started from the same
\* record at version V at most one appends version V+1 and the other gets
\* VersionConflict: no save or findOneAndUpdate leaves two change-sets with
\* the same parent and version in the log.
C14_VersionConflict ==
    [][(Called("save") \/ Called("findOneAndUpdate"))
       => \A i \in 1..Len(log') : \A j \in 1..Len(log') :
             (i # j /\ log'[i].parent = log'[j].parent)
                => log'[i].version # log'[j].version]_vars

\* C15: a findOneAndUpdate (versioning not suppressed) on a stored record at
\* version V >= 1 leaves the record at version V+1 and appends exactly one
\* change-set, with version V+1 and operations diff(Snapshot(V), updated
\* state).
C15_FindOneAndUpdateVersioned ==
    [][(Called("findOneAndUpdate") /\ ~result'.suppress
          /\ store # NoRecord /\ Version(store) >= 1)
       => /\ Version(store') = Version(store) + 1
          /\ Appends(log, log', 1)
          /\ log'[Len(log')].version = Version(store) + 1
          /\ log'[Len(log')].patches =
                diff(Replay(log, Version(store)).newDocument, store')]_vars

\* C16: a findOneAndUpdate (versioning not suppressed) on a stored record
\* without version field appends exactly two change-sets, version 1 with the
\* state before the update and version 2 with the update, and leaves the
\* record at version 2.
C16_FindOneAndUpdateBackfill ==
    [][(Called("findOneAndUpdate") /\ ~result'.suppress
          /\ store # NoRecord /\ Version(store) = NoVersion)
       => /\ Appends(log, log', 2)
          /\ log'[Len(log) + 1].version = 1
          /\ log'[Len(log) + 1].patches = diff(EmptyObj, store)
          /\ log'[Len(log) + 2].version = 2
          /\ log'[Len(log) + 2].patches = diff(store, store')
          /\ Version(store') = 2]_vars
C16_Witness ==
    /\ result.op = "findOneAndUpdate" /\ ~result.suppress /\ result.err = "none"
    /\ Len(log) = 2 /\ log[1].version = 1 /\ log[2].version = 2
    /\ Version(store) = 2
    /\ Replay(log, 1).newDocument # EmptyObj
    /\ Version(Replay(log, 1).newDocument) = NoVersion
    /\ Len(log[2].patches) >= 2

C18_SaveCompletion ==
    (result.op = "save" /\ ~result.suppress /\ result.err = "none")
    => \E i \in 1..Len(log) : log[i].version = Version(doc.tree)

\* C19: for every pair (a, b) of snapshots of a bounded set of trees,
\* applying diff(a, b) to a succeeds and yields exactly b.
C19_RoundTrip ==
    trial.done => (~trial.error /\ trial.out = trial.b)

\* C20: every change-set a rollback deletes is the one with the highest
\* version stored for the parent at that moment, whichever in-memory copy
\* the rollback was called on.
C20_RollbackDeletesHighest ==
    [][(Called("rollback") /\ log' # log)
       => \E i \in 1..Len(log) :
             /\ log' = SubSeq(log, 1, i - 1) \o SubSeq(log, i + 1, Len(log))
             /\ \A j \in 1..Len(log) : log[j].version <= log[i].version]_vars

\* C21: a non-suppressed VERSIONED save that fails while listing or appending
\* change-sets leaves the version field of the record, in memory and in the
\* store, as it was before the call.
C21_FailedSaveNoChange ==
    [][(Called("save") /\ result'.branch = "VERSIONED" /\ result'.err = "LogFailure")
       => /\ Version(doc'.tree) = Version(doc.tree)
          /\ StoredVersion' = StoredVersion]_vars

\* C22: in a BACKFILL, by save or by findOneAndUpdate of a record without
\* version field, the change-set appended at version 1 carries no caller
\* metadata and the change-set appended at version 2 carries the metadata
\* passed to the call.
C22_BackfillMetadata ==
    [][(\/ Called("save") /\ result'.branch = "BACKFILL" /\ result'.err = "none"
        \/ Called("findOneAndUpdate") /\ ~result'.suppress
             /\ store # NoRecord /\ Version(store) = NoVersion)
       => \A i \in (Len(log) + 1)..Len(log') :
             /\ log'[i].version = 1 => log'[i].metadata = NoMeta
             /\ log'[i].version = 2 => log'[i].metadata = result'.meta]_vars

\* C23: when the collection option names the history collection, the
\* change-set of every version a findOneAndUpdate produces is in that
\* collection, the one getVersion, rollback and getHistoryModel read.
C23_OneHistoryCollection ==
    [][(options.collection /\ Called("findOneAndUpdate") /\ ~result'.suppress
          /\ store # NoRecord)
       => Version(store') \in LogVersions']_vars

\* The version-date field of a record, NoDate when it has none.
NoDate == 0
VersionDate(tree) ==
    IF tree # NoRecord /\ Has(tree, versionDateKey) THEN tree.val[versionDateKey].val
    ELSE NoDate

\* C24: a save or a findOneAndUpdate writes the version-date field of the
\* record, in memory or in the store, only when both trackDate and
\* addDateToDocument are enabled.
C24_VersionDateNeedsBoth ==
    [][((Called("save") \/ Called("findOneAndUpdate"))
          /\ ~(options.trackDate /\ options.addDateToDocument))
       => /\ VersionDate(store') = VersionDate(store)
          /\ VersionDate(doc'.tree) = VersionDate(doc.tree)]_vars

\* C25: the change-set a VERSIONED save of a record at version V appends
\* holds the diff from the replay of the change-sets with version <= V to the
\* new state, also when the log holds a change-set with a higher version.
C25_BaseSnapshotAtVersion ==
    [][(NonSuppressedSave /\ result'.branch = "VERSIONED" /\ result'.err = "none")
       => /\ Appends(log, log', 1)
          /\ ~Replay(log, Version(doc.tree)).error
          /\ log'[Len(log')].patches =
                diff(Replay(log, Version(doc.tree)).newDocument, doc'.tree)]_vars

\* C26: a rollback of a record at version V > 1 that gets past its query
\* takes a change-set with the greatest version below V, leaves the in-memory
\* record as that change-set's operations applied in order onto the
\* in-memory state, with the change-set's version, and persists it without
\* appending a change-set; no change-set is deleted before the record is
\* persisted, and at most one afterwards.
C26_RollbackSteps ==
    [][(Called("rollback") /\ Version(doc.tree) > 1 /\ result'.reads = 1
          /\ result'.err \in {"none", "StoreFailure", "LogFailure"})
       => \E i \in 1..Len(log) :
             /\ log[i].version < Version(doc.tree)
             /\ \A j \in 1..Len(log) :
                   log[j].version < Version(doc.tree) => log[j].version <= log[i].version
             /\ doc'.tree = Put(applyPatch(doc.tree, log[i].patches).newDocument,
                                versionKey, Leaf(log[i].version))
             /\ Version(doc'.tree) = log[i].version
             /\ result'.err = "StoreFailure" => (store' = store /\ log' = log)
             /\ result'.err # "StoreFailure" => store' = Persisted(doc, store, doc'.tree)
             /\ result'.err = "LogFailure" => log' = log
             /\ result'.err = "none" =>
                   \/ log' = log
                   \/ \E k \in 1..Len(log) :
                         log' = SubSeq(log, 1, k - 1) \o SubSeq(log, k + 1, Len(log))]_vars
C26_Witness ==
    /\ result.op = "rollback" /\ result.branch = "RESTORED"
    /\ Version(doc.tree) >= 1 /\ Version(store) = Version(doc.tree)
    /\ ~Replay(log, Version(doc.tree)).error
    /\ doc.tree # Replay(log, Version(doc.tree)).newDocument
    /\ Len(log) >= 1

\* C27: a non-suppressed save of a handle that is not new, has no version
\* field and whose stored record is not found gives the record version 1 and
\* appends exactly one change-set, of version 1, with the diff from the
\* empty value to the new state.
C27_NotFoundAsNew ==
    [][(NonSuppressedSave /\ ~doc.isNew /\ Version(doc.tree) = NoVersion
          /\ store = NoRecord)
       => /\ Version(doc'.tree) = 1
          /\ Appends(log, log', 1)
          /\ log'[Len(log')].version = 1
          /\ log'[Len(log')].patches = diff(EmptyObj, doc'.tree)]_vars

\* sets holds exactly one change-set for each version in 1..n and no other.
ExactlyVersions(sets, n) ==
    /\ Len(sets) = n
    /\ \A v \in 1..n : \E i \in 1..Len(sets) : sets[i].version = v

\* C28: a rollback on the handle of a record at version N >= 1 whose log
\* holds exactly the change-sets 1..N succeeds; for N > 1 it leaves the
\* record and the handle at version N-1 with exactly the change-sets 1..N-1,
\* for N = 1 it deletes the record and leaves no change-set. N successive
\* rollbacks are N such steps.
C28_SuccessiveRollbacks ==
    [][(Called("rollback") /\ ~doc.deleted /\ store # NoRecord
          /\ Version(doc.tree) >= 1 /\ Version(store) = Version(doc.tree)
          /\ ExactlyVersions(log, Version(doc.tree)))
       => /\ result'.err = "none"
          /\ IF Version(doc.tree) = 1
             THEN store' = NoRecord /\ log' = <<>>
             ELSE /\ store' # NoRecord
                  /\ Version(store') = Version(doc.tree) - 1
                  /\ Version(doc'.tree) = Version(doc.tree) - 1
                  /\ ExactlyVersions(log', Version(doc.tree) - 1)]_vars

\* C29: in every state a save, a findOneAndUpdate or a rollback can stop in,
\* between two of its log and store calls or at its end, a stored record
\* whose version field is V has a change-set for every version in 1..V.
C29_LogNotBehind ==
    store # NoRecord => \A v \in 1..Version(store) : v \in LogVersions

\* What a BACKFILL that stopped between its two appends leaves: the stored
\* record still without version field, and its retroactive change-set of
\* version 1 alone in the log.
PartialBackfill ==
    /\ store # NoRecord /\ Version(store) = NoVersion
    /\ Len(log) = 1 /\ log[1].version = 1
    /\ log[1].patches = diff(EmptyObj, store)

\* C30: a non-suppressed save that completes on a record left by a BACKFILL
\* that stopped between its two appends, on the same handle or on a reloaded
\* copy, ends with exactly one change-set of version 1 and one of version 2,
\* and the record at version 2.
C30_BackfillRetry ==
    [][(NonSuppressedSave /\ result'.err = "none" /\ PartialBackfill)
       => /\ ExactlyVersions(log', 2)
          /\ Version(store') = 2]_vars

\* C32: a findOneAndUpdate (versioning not suppressed) whose filter matches
\* no record appends no change-set, changes no record and raises no error.
C32_FindOneAndUpdateNoMatch ==
    [][(Called("findOneAndUpdate") /\ ~result'.suppress /\ store = NoRecord)
       => /\ log' = log
          /\ store' = store
          /\ result'.err = "none"]_vars

\* C33: getVersion on a record without version field fails with
\* InvalidVersion for every version number and returns no snapshot.
C33_GetVersionUnversioned ==
    (result.op = "getVersion" /\ Version(doc.tree) = NoVersion)
    => result.err = "InvalidVersion" /\ result.val = NoRecord

\* C34: the snapshot getVersion(record, k) returns for k in 1..record.version
\* carries a version field equal to k, also for k = 1 of a record whose
\* history was started by a BACKFILL.
C34_SnapshotVersionField ==
    (result.op = "getVersion" /\ result.err = "none"
       /\ 1 <= result.k /\ result.k <= Version(doc.tree))
    => Version(result.val) = result.k

\* The change-sets of sets whose parent is id, in insertion order.
ParentSets(sets, id) == SelectSeq(sets, LAMBDA c : c.parent = id)

\* C35: a save, getVersion or rollback on a record leaves the stored state
\* and the change-sets of the other record unchanged, appends and deletes
\* only change-sets of its own parent, and its outcome is the one its own
\* change-sets alone give: the base of a VERSIONED save and the snapshot of
\* getVersion are replays of them, the change-set a rollback applies is one
\* of them.
C35_ParentIsolation ==
    [][(Called("save") \/ Called("getVersion") \/ Called("rollback"))
       => /\ other' = other
          /\ ParentSets(log', OtherId) = ParentSets(log, OtherId)
          /\ (result'.op = "save" /\ result'.branch = "VERSIONED" /\ result'.err = "none")
             => /\ Len(ParentSets(log', IdValue)) = Len(ParentSets(log, IdValue)) + 1
                /\ log'[Len(log')].parent = IdValue
                /\ log'[Len(log')].patches =
                      diff(applyPatch(EmptyObj,
                             concatPatches(sortByVersion(ParentSets(log, IdValue)))).newDocument,
                           doc'.tree)
          /\ result'.op = "getVersion"
             => result'.val = getVersion(doc.tree, ParentSets(log, IdValue), result'.k).val
          /\ (result'.op = "rollback" /\ result'.branch = "RESTORED")
             => /\ \E i \in 1..Len(log) :
                      /\ log[i].parent = IdValue
                      /\ doc'.tree = Put(applyPatch(doc.tree, log[i].patches).newDocument,
                                         versionKey, Leaf(log[i].version))
                /\ Len(ParentSets(log', IdValue)) >= Len(ParentSets(log, IdValue)) - 1]_vars
C35_Witness ==
    /\ result.op = "save" /\ result.branch = "VERSIONED" /\ result.err = "none"
    /\ other # NoRecord /\ Version(other) >= 2
    /\ Len(ParentSets(log, OtherId)) >= 2
    /\ Len(ParentSets(log, IdValue)) >= 2
    /\ log[1].parent = OtherId

\* The version a findOneAndUpdate has to write into a record stored as tree.
NextVersion(tree) == IF Version(tree) = NoVersion THEN 2 ELSE Version(tree) + 1

\* C31: the update of a findOneAndUpdate writes into the record it modifies
\* the version that record has in the store at that moment plus one (2 if it
\* has none), and the record it modifies is the one its pre hook appended a
\* version-1 change-set for, if it appended one; also when the filter
\* matches several records or another writer changed the record since the
\* pre hook read it.
C31_FindOneAndUpdateVersion ==
    [][(update.active /\ ~update'.active /\ result'.err = "none")
       => /\ store' # store =>
                (Version(store') = NextVersion(store)
                   /\ (update.backfilled => update.read = IdValue))
          /\ other' # other =>
                (Version(other') = NextVersion(other)
                   /\ (update.backfilled => update.read = OtherId))]_vars

\* The plugin with getVersion and rollback called with and without a
\* callback, and rollbacks whose log and store calls can be rejected.
CallbackMaxCalls == 3

CallbackSaveStep ==
    \E c \in DeepContents, m \in Metadata : Save(c, m, FALSE, CallbackMaxCalls)
CallbackGetVersionStep ==
    \E k \in 0..(CallbackMaxCalls + 1), cb \in BOOLEAN : GetVersion(k, cb)
CallbackRollbackStep == \E cb \in BOOLEAN : Rollback(cb, CallbackMaxCalls)
CallbackRollbackFaultStep ==
    \E f \in RollbackFaults, cb \in BOOLEAN : RollbackFault(f, cb, CallbackMaxCalls)
CallbackReloadStep == Reload(CallbackMaxCalls)

NextCallbacks ==
    \/ CallbackSaveStep
    \/ CallbackGetVersionStep
    \/ CallbackRollbackStep
    \/ CallbackRollbackFaultStep
    \/ CallbackReloadStep

SpecCallbacks == DeepInit /\ [][NextCallbacks]_vars

\* C36: a getVersion or a rollback that was given a callback reports its
\* outcome through one channel: it has invoked the callback exactly once,
\* with an error or with a result, and it has not thrown as well.
C36_OneChannel ==
    (result.op \in {"getVersion", "rollback"} /\ result.cb)
        => (result.callbacks = 1 /\ ~result.thrown)

====
